---- MODULE Spec2Model ----
(***************************************************************************)
(* Decoding strategies (greedy_decode, beam_search_decode), batch          *)
(* collation (collate_batch) and the mask stage of attention() of the      *)
(* Neural-Machine-Translation repository, as state machines.               *)
(*                                                                         *)
(* Tensors are modelled by their contents: a 1-D tensor is a sequence, a   *)
(* 2-D tensor a sequence of rows.  Token ids and tensor indices are        *)
(* 0-based as in the source; TLA+ sequences are 1-based, so row r of a     *)
(* tensor t is t[r + 1].  Log-probabilities are integers <= 0.             *)
(***************************************************************************)
EXTENDS Integers, Sequences, FiniteSets

\* ------------------------------------------------------------------ bounds
VocabSize == 3
MaxLen == 4

\* collate_batch: longest token-id sequence, largest batch, widest padding
MaxSeqLen == 3
MaxBatch == 2
MaxPadding == 5

\* attention: largest batch and longest query / key sequence
MaxN == 2
MaxSeq == 3

\* Beam widths: 1, 2, and one wider than the vocabulary (torch.topk raises).
BeamSizes == {1, 2, VocabSize + 1}

\* ids collate_batch brackets a row with: <s> and </s>
bs_id == 0
eos_id == 1

\* Values a log-probability takes; 0 is probability one.
LogProbs == {-2, -1, 0}

Vocab == 0 .. (VocabSize - 1)

\* A row of log-probabilities over the vocabulary.  The generator is a
\* log_softmax, so at most one token has log-probability 0 (probability one).
Rows ==
    {r \in [Vocab -> LogProbs] : Cardinality({j \in Vocab : r[j] = 0}) <= 1}

\* The model argument, a black box to the decoders: decode() followed by
\* generator() on the last position gives one row of log-probabilities per
\* hypothesis, here a function of the hypothesis's last token.
\* Unigram(r): the same row r whatever the prefix.
Unigram(r) == [l \in Vocab |-> r]

\* Shifted(r): the log-probability of the next token depends on its offset
\* from the last token.
Shifted(r) ==
    [l \in Vocab |-> [j \in Vocab |-> r[(j + VocabSize - l) % VocabSize]]]

Models == {Unigram(r) : r \in Rows} \cup {Shifted(r) : r \in Rows}

VARIABLES
    \* arguments of greedy_decode / beam_search_decode
    model, max_len, start_symbol, beam_size, end_idx,
    \* greedy_decode
    g_pc, g_it, g_ys,
    \* beam_search_decode
    b_pc, it, i, ys, scores, memory, src_mask, prob, rows, cols,
    ys_prev, scores_prev, decode_calls, result,
    \* collate_batch
    batch, max_padding, pad_id, c_pc, c_k, src_list, tgt_list, src, tgt,
    \* attention
    a_pc, N, Lq, Lk, mask_dim, mask, masked_scores, attn_weights, attn_out

decodeVars == <<model, max_len, start_symbol, beam_size, end_idx,
                g_pc, g_it, g_ys,
                b_pc, it, i, ys, scores, memory, src_mask, prob, rows, cols,
                ys_prev, scores_prev, decode_calls, result>>

collateVars == <<batch, max_padding, pad_id, c_pc, c_k, src_list, tgt_list, src, tgt>>

attnVars == <<a_pc, N, Lq, Lk, mask_dim, mask, masked_scores, attn_weights, attn_out>>

vars == <<decodeVars, collateVars, attnVars>>

\* ----------------------------------------------------------------- helpers
Last(s) == s[Len(s)]

\* model.decode(...) then model.generator(out[:, -1]): one row per hypothesis.
Generator(m, yss) == [k \in 1 .. Len(yss) |-> m[Last(yss[k])]]

\* torch.max(prob, dim=1) on one row: the index of the first maximal value.
ArgMax(row) ==
    CHOOSE j \in DOMAIN row :
        /\ \A l \in DOMAIN row : row[l] <= row[j]
        /\ \A l \in DOMAIN row : row[l] = row[j] => j <= l

\* ------------------------------------------------------------ greedy_decode
\* a loop that stops as soon as the end token has been generated
GreedyStopsAtEnd(n, k, s) == k >= n - 1 \/ (k >= 1 /\ Last(s) = eos_id)

\* for i in range(max_len - 1): exhausted after max_len - 1 iterations,
\* whatever ys holds
GreedyExhausted(n, k, s) == k >= n - 1

GreedyStep ==
    /\ g_pc = "loop"
    /\ ~GreedyExhausted(max_len, g_it, g_ys)
    /\ LET p == Generator(model, <<g_ys>>)
           next_word == ArgMax(p[1])
       IN  g_ys' = Append(g_ys, next_word)
    /\ g_it' = g_it + 1
    /\ UNCHANGED <<model, max_len, start_symbol, beam_size, end_idx, g_pc,
                   b_pc, it, i, ys, scores, memory, src_mask, prob, rows, cols,
                   ys_prev, scores_prev, decode_calls, result,
                   collateVars, attnVars>>

GreedyReturn ==
    /\ g_pc = "loop"
    /\ GreedyExhausted(max_len, g_it, g_ys)
    /\ g_pc' = "done"
    /\ UNCHANGED <<model, max_len, start_symbol, beam_size, end_idx, g_it, g_ys,
                   b_pc, it, i, ys, scores, memory, src_mask, prob, rows, cols,
                   ys_prev, scores_prev, decode_calls, result,
                   collateVars, attnVars>>

\* -------------------------------------------------------- beam_search_decode
\* the rows of ended hypotheses left as the generator gave them
ZeroEndedSkipped(p, yss, e) == p

\* prob[ys[:,-1] == end_idx, :] = 0
ZeroEnded(p, yss, e) ==
    [k \in DOMAIN p |->
        IF Last(yss[k]) = e THEN [j \in Vocab |-> 0] ELSE p[k]]

\* the cumulative scores never added
CombinedNoScores(idx, sc, p) == p

\* if (i==0): combined = prob  else: scores.unsqueeze(1).repeat(1,V) + prob
Combined(idx, sc, p) ==
    IF idx = 0 THEN p
    ELSE [k \in DOMAIN p |-> [j \in Vocab |-> sc[k] + p[k][j]]]

\* combined.flatten(): row-major, 0-based
Flatten(c) ==
    [f \in 0 .. (Len(c) * VocabSize - 1) |->
        c[(f \div VocabSize) + 1][f % VocabSize]]

\* torch.topk(flat, k): the index vectors it may return.  Values come back
\* largest first; which of several equal values is taken, and their order, is
\* not specified.
TopK(flat, k) ==
    {s \in [1 .. k -> DOMAIN flat] :
        /\ \A a, b \in 1 .. k : a < b => (s[a] # s[b] /\ flat[s[a]] >= flat[s[b]])
        /\ \A f \in DOMAIN flat :
              (\A a \in 1 .. k : s[a] # f) => flat[f] <= flat[s[k]]}

\* if prob[i][j] == 0: append end_idx  else: append j
NewSeq(p, yss, r, c, e) ==
    IF p[r + 1][c] = 0 THEN Append(yss[r + 1], e) ELSE Append(yss[r + 1], c)

\* the count compared with the sequence length instead of the beam width
AllEndedWrongDim(yss, bs, e) ==
    Cardinality({k \in DOMAIN yss : Last(yss[k]) = e}) = Len(yss[1])

\* (ys[:, -1]==end_idx).sum() == beam_size
AllEnded(yss, bs, e) ==
    Cardinality({k \in DOMAIN yss : Last(yss[k]) = e}) = bs

\* "from the second time step" read as a positive index
ExpandCondLater(idx) == idx > 0

\* the condition of the expansion, "if i==0", on the value i holds there: the
\* inner loop has reassigned i to rows[beam_size - 1]
ExpandCond(idx) == idx = 0

\* t.expand(beam_size, *t.shape[1:]) on a tensor of batch size n
Expand(n, bs) == IF n = 1 \/ n = bs THEN bs ELSE -1

BeamStep ==
    /\ b_pc = "loop"
    /\ it < max_len - 1
    /\ decode_calls' = decode_calls + 1
    /\ LET p == ZeroEnded(Generator(model, ys), ys, end_idx)
           combined == Combined(it, scores, p)
           flat == Flatten(combined)
       IN  IF beam_size > Len(combined) * VocabSize
           THEN \* torch.topk raises: k out of range
                /\ b_pc' = "error"
                /\ prob' = p
                /\ UNCHANGED <<it, i, ys, scores, memory, src_mask, rows, cols,
                               ys_prev, scores_prev>>
           ELSE \E k_indices \in TopK(flat, beam_size) :
                LET rs == [k \in 1 .. beam_size |-> k_indices[k] \div VocabSize]
                    cs == [k \in 1 .. beam_size |-> k_indices[k] % VocabSize]
                    newys == [k \in 1 .. beam_size |->
                                 NewSeq(p, ys, rs[k], cs[k], end_idx)]
                    brk == AllEnded(newys, beam_size, end_idx)
                IN  /\ prob' = p
                    /\ rows' = rs
                    /\ cols' = cs
                    /\ scores' = [k \in 1 .. beam_size |-> flat[k_indices[k]]]
                    /\ ys' = newys
                    /\ ys_prev' = ys
                    /\ scores_prev' = scores
                    /\ i' = rs[beam_size]
                    /\ it' = it + 1
                    /\ b_pc' = IF brk THEN "after" ELSE "loop"
                    /\ memory' = IF ~brk /\ ExpandCond(rs[beam_size])
                                 THEN Expand(memory, beam_size) ELSE memory
                    /\ src_mask' = IF ~brk /\ ExpandCond(rs[beam_size])
                                   THEN Expand(src_mask, beam_size) ELSE src_mask
    /\ UNCHANGED <<model, max_len, start_symbol, beam_size, end_idx,
                   g_pc, g_it, g_ys, result, collateVars, attnVars>>

\* max(zip(ys, scores), key=lambda x: x[1]): the first hypothesis of top score
BestIndex(sc) ==
    CHOOSE k \in DOMAIN sc :
        /\ \A l \in DOMAIN sc : sc[l] <= sc[k]
        /\ \A l \in DOMAIN sc : sc[l] = sc[k] => k <= l

BeamReturn ==
    /\ \/ b_pc = "after"
       \/ b_pc = "loop" /\ it >= max_len - 1
    /\ result' = <<ys[BestIndex(scores)]>>
    /\ b_pc' = "done"
    /\ UNCHANGED <<model, max_len, start_symbol, beam_size, end_idx,
                   g_pc, g_it, g_ys,
                   it, i, ys, scores, memory, src_mask, prob, rows, cols,
                   ys_prev, scores_prev, decode_calls, collateVars, attnVars>>

\* ------------------------------------------------------------ collate_batch
\* torch.cat([bs_id, ids, eos_id], 0)
Bracket(ids) == <<bs_id>> \o ids \o <<eos_id>>

\* one pad value too few
PadShort(x, n, v) ==
    IF n > 0 THEN x \o [p \in 1 .. (n - 1) |-> v]
    ELSE SubSeq(x, 1, Len(x) + n)

\* torch.nn.functional.pad(x, (0, n), value=v) on a 1-D tensor: n values v
\* appended on the right; a negative n removes -n elements from the right
Pad(x, n, v) ==
    IF n >= 0 THEN x \o [p \in 1 .. n |-> v]
    ELSE SubSeq(x, 1, Len(x) + n)

\* for (_src, _tgt) in batch: one pair processed and appended to both lists
CollateStep ==
    /\ c_pc = "loop"
    /\ c_k < Len(batch)
    /\ LET processed_src == Bracket(batch[c_k + 1][1])
           processed_tgt == Bracket(batch[c_k + 1][2])
       IN  /\ src_list' = Append(src_list,
                 Pad(processed_src, max_padding - Len(processed_src), pad_id))
           /\ tgt_list' = Append(tgt_list,
                 Pad(processed_tgt, max_padding - Len(processed_tgt), pad_id))
    /\ c_k' = c_k + 1
    /\ UNCHANGED <<batch, max_padding, pad_id, c_pc, src, tgt, decodeVars, attnVars>>

\* torch.stack(src_list), torch.stack(tgt_list); return (src, tgt)
\* torch.stack raises on an empty list and on rows of different lengths
Stackable(l) == l # <<>> /\ \A a, b \in DOMAIN l : Len(l[a]) = Len(l[b])

CollateReturn ==
    /\ c_pc = "loop"
    /\ c_k >= Len(batch)
    /\ IF Stackable(src_list) /\ Stackable(tgt_list)
       THEN c_pc' = "done" /\ src' = src_list /\ tgt' = tgt_list
       ELSE c_pc' = "error" /\ UNCHANGED <<src, tgt>>
    /\ UNCHANGED <<batch, max_padding, pad_id, c_k, src_list, tgt_list,
                   decodeVars, attnVars>>

\* ---------------------------------------------------------------- attention
\* the value masked_fill writes, -1e9
Sentinel == -1000000000

\* torch.matmul(query, keyT) / sqrt(dk): the raw score at (n, q, k); the
\* values stand for any real scores, all different from the sentinel
RawScores(n_, q_, k_) ==
    [n \in 1 .. n_ |-> [q \in 1 .. q_ |-> [k \in 1 .. k_ |-> 10 * q + k]]]

\* Lq = key.shape[1]: the number of rows the 2-D mask is repeated to
RepeatCount(q_len, k_len) == k_len

\* mask.unsqueeze(1).repeat([1, r, 1])
Repeat2D(m, r) == [n \in DOMAIN m |-> [q \in 1 .. r |-> m[n]]]

\* t.masked_fill(m == 0, Sentinel), out of place: t (q_len rows per batch
\* element) and m are broadcast to a common shape, so their row counts are
\* equal or one of them is 1; otherwise it raises
Broadcastable(m, q_len) ==
    \A n \in DOMAIN m : Len(m[n]) = q_len \/ Len(m[n]) = 1 \/ q_len = 1

\* the result has the larger of the two row counts; a single row of t or of
\* m stands for every row
MaskedFill(t, m) ==
    [n \in DOMAIN t |->
        [q \in 1 .. (IF Len(t[n]) >= Len(m[n]) THEN Len(t[n]) ELSE Len(m[n])) |->
            [k \in DOMAIN t[n][1] |->
                LET trow == IF Len(t[n]) = 1 THEN t[n][1] ELSE t[n][q]
                    mrow == IF Len(m[n]) = 1 THEN m[n][1] ELSE m[n][q]
                IN  IF mrow[k] = 0 THEN Sentinel ELSE trow[k]]]]

\* torch.nn.Softmax(dim=2) by where its weights are positive (1) or 0: a
\* sentinel score gets weight exp(-1e9 - max) = 0 beside a score left as it
\* was; a row of sentinels only gets the uniform weight 1 / Lk everywhere
SoftmaxSupport(t) ==
    [n \in DOMAIN t |-> [q \in DOMAIN t[n] |-> [k \in DOMAIN t[n][q] |->
        IF t[n][q][k] = Sentinel /\ \E k2 \in DOMAIN t[n][q] : t[n][q][k2] # Sentinel
        THEN 0 ELSE 1]]]

\* attention() with dropout=None.  masked_scores is the tensor the softmax is
\* applied to (the code's attn_weights after the mask stage), attn_weights
\* the support of the weights returned, attn_out the shape (batch, rows) of
\* torch.matmul(attn_weights, value), whose last dimension is d_v.
Attention ==
    /\ a_pc = "call"
    /\ LET raw == RawScores(N, Lq, Lk)
           m3 == IF mask_dim = 2 THEN Repeat2D(mask, RepeatCount(Lq, Lk)) ELSE mask
           filled == IF mask_dim = 0 THEN raw ELSE MaskedFill(raw, m3)
       IN  IF mask_dim = 0 \/ Broadcastable(m3, Lq)
           THEN /\ a_pc' = "done"
                /\ masked_scores' = filled
                /\ attn_weights' = SoftmaxSupport(filled)
                /\ attn_out' = <<Len(filled), Len(filled[1])>>
           ELSE \* masked_fill raises: shapes do not broadcast
                /\ a_pc' = "error"
                /\ UNCHANGED <<masked_scores, attn_weights, attn_out>>
    /\ UNCHANGED <<N, Lq, Lk, mask_dim, mask, decodeVars, collateVars>>

\* ------------------------------------------------------------ initial states
GreedyIdle == g_pc = "idle" /\ g_it = 0 /\ g_ys = <<>>

GreedyStart == g_pc = "loop" /\ g_it = 0 /\ g_ys = <<start_symbol>>

BeamIdle ==
    /\ b_pc = "idle" /\ it = 0 /\ i = 0 /\ ys = <<>> /\ scores = <<>>
    /\ memory = 0 /\ src_mask = 0 /\ prob = <<>> /\ rows = <<>> /\ cols = <<>>
    /\ ys_prev = <<>> /\ scores_prev = <<>> /\ decode_calls = 0 /\ result = <<>>

BeamStart ==
    /\ b_pc = "loop" /\ it = 0 /\ i = 0
    /\ ys = <<<<start_symbol>>>> /\ scores = <<0>>
    /\ memory = 1 /\ src_mask = 1
    /\ prob = <<>> /\ rows = <<>> /\ cols = <<>>
    /\ ys_prev = <<>> /\ scores_prev = <<>> /\ decode_calls = 0 /\ result = <<>>

CollateIdle ==
    /\ batch = <<>> /\ max_padding = 0 /\ pad_id = 0 /\ c_pc = "idle" /\ c_k = 0
    /\ src_list = <<>> /\ tgt_list = <<>> /\ src = <<>> /\ tgt = <<>>

AttnIdle ==
    /\ a_pc = "idle" /\ N = 0 /\ Lq = 0 /\ Lk = 0 /\ mask_dim = 0 /\ mask = <<>>
    /\ masked_scores = <<>> /\ attn_weights = <<>> /\ attn_out = <<>>

DecodeIdle ==
    /\ model = <<>> /\ max_len = 0 /\ start_symbol = 0 /\ beam_size = 0
    /\ end_idx = 0
    /\ GreedyIdle
    /\ BeamIdle

\* src_vocab(src_pipeline(_src)): the ids of a text of n tokens; collate_batch
\* never reads their values
TokenIds(n) == [p \in 1 .. n |-> p + 2]

Pairs == {<<TokenIds(a), TokenIds(b)>> : a, b \in 0 .. MaxSeqLen}

Batches == UNION {[1 .. n -> Pairs] : n \in 0 .. MaxBatch}

PadIds == {2, 7}

InitCollate ==
    /\ batch \in Batches
    /\ max_padding \in 1 .. MaxPadding
    /\ pad_id \in PadIds
    /\ c_pc = "loop" /\ c_k = 0
    /\ src_list = <<>> /\ tgt_list = <<>> /\ src = <<>> /\ tgt = <<>>
    /\ DecodeIdle
    /\ AttnIdle

\* 2-D masks (N, Lk); 3-D masks (N, Lq, Lk): a 2-D mask on every query row,
\* alone or combined with subsequent_mask
Masks2D(n_, k_) == [1 .. n_ -> [1 .. k_ -> {0, 1}]]

Masks3D(n_, q_, k_) ==
    {[n \in 1 .. n_ |-> [q \in 1 .. q_ |-> [k \in 1 .. k_ |->
         IF causal /\ k > q THEN 0 ELSE m[n][k]]]] :
     m \in Masks2D(n_, k_), causal \in BOOLEAN}

InitAttn ==
    /\ N \in 1 .. MaxN
    /\ Lq \in 1 .. MaxSeq
    /\ Lk \in 1 .. MaxSeq
    /\ mask_dim \in {0, 2, 3}
    /\ mask \in CASE mask_dim = 0 -> {<<>>}
              [] mask_dim = 2 -> Masks2D(N, Lk)
              [] mask_dim = 3 -> Masks3D(N, Lq, Lk)
    /\ a_pc = "call"
    /\ masked_scores = <<>> /\ attn_weights = <<>> /\ attn_out = <<>>
    /\ DecodeIdle
    /\ CollateIdle

InitGreedy ==
    /\ model \in Models
    /\ max_len \in 1 .. MaxLen
    /\ start_symbol \in Vocab
    /\ beam_size = 0 /\ end_idx = 0
    /\ GreedyStart
    /\ BeamIdle
    /\ CollateIdle
    /\ AttnIdle

InitBeam ==
    /\ model \in Models
    /\ max_len \in 1 .. MaxLen
    /\ start_symbol = bs_id
    /\ beam_size \in BeamSizes
    /\ end_idx \in Vocab
    /\ GreedyIdle
    /\ BeamStart
    /\ CollateIdle
    /\ AttnIdle

\* Models on which the argmax of every row is unique: on them torch.max and
\* torch.topk with k = 1 have one possible answer each.
UniqueArgMax(m) ==
    \A l \in Vocab : \E j \in Vocab : \A t \in Vocab \ {j} : m[l][t] < m[l][j]

InitPair ==
    /\ model \in {m \in Models : UniqueArgMax(m)}
    /\ max_len \in 1 .. MaxLen
    /\ start_symbol \in Vocab
    /\ beam_size = 1
    /\ end_idx \in Vocab \ {start_symbol}
    /\ GreedyStart
    /\ BeamStart
    /\ CollateIdle
    /\ AttnIdle

NextGreedy == GreedyStep \/ GreedyReturn

NextBeam == BeamStep \/ BeamReturn

\* the two decoders called one after the other on the same arguments
PairBeamStep == g_pc = "done" /\ BeamStep

PairBeamReturn == g_pc = "done" /\ BeamReturn

NextPair == GreedyStep \/ GreedyReturn \/ PairBeamStep \/ PairBeamReturn

SpecGreedy == InitGreedy /\ [][NextGreedy]_vars

SpecBeam == InitBeam /\ [][NextBeam]_vars

SpecPair == InitPair /\ [][NextPair]_vars

NextCollate == CollateStep \/ CollateReturn

SpecCollate == InitCollate /\ [][NextCollate]_vars

NextAttn == Attention

SpecAttn == InitAttn /\ [][NextAttn]_vars

\* ================================================================ properties
\* the parent row the k-th hypothesis of the beam was extended from
Parent(k) == ys_prev[rows[k] + 1]

\* a beam step has completed (topk did not raise)
Stepped == it >= 1

\* C1: with beam_size = 1, every token beam_search_decode has appended is the
\* token greedy_decode appended at that position on the same model, src,
\* max_len and start_symbol.
C1_BeamOneFollowsGreedy ==
    (g_pc = "done" /\ beam_size = 1) =>
        \A k \in DOMAIN ys :
            \A p \in 1 .. Len(ys[k]) : p <= Len(g_ys) => ys[k][p] = g_ys[p]

\* C2: when after a step all beam_size hypotheses end with end_idx, the loop
\* has exited at that step (no further iteration, no further decode call: one
\* decode call per iteration executed); if that happened within max_len - 2
\* steps, fewer than max_len - 1 iterations ran and the sequence returned is
\* shorter than max_len.
C2_ExitWhenAllEnded ==
    (Stepped /\ Len(ys) = beam_size /\ \A k \in DOMAIN ys : Last(ys[k]) = end_idx) =>
        /\ b_pc \in {"after", "done"}
        /\ decode_calls = it
        /\ (it <= max_len - 2 /\ b_pc = "done") =>
              /\ it < max_len - 1
              /\ Len(result) = 1
              /\ Len(result[1]) = it + 1
              /\ Len(result[1]) < max_len

C2_Witness ==
    /\ b_pc = "done"
    /\ beam_size = 2
    /\ start_symbol # end_idx
    /\ it = 2
    /\ max_len = 4
    /\ \A k \in DOMAIN ys : Last(ys[k]) = end_idx
    /\ \E k \in DOMAIN ys : Last(Parent(k)) # end_idx

\* C3: greedy_decode runs exactly max_len - 1 steps, one token appended per
\* step, and returns max_len tokens, the first being start_symbol; while the
\* step budget is not used up it goes on, whatever it has generated.
C3_GreedyFixedLength ==
    /\ Len(g_ys) = g_it + 1
    /\ g_ys[1] = start_symbol
    /\ g_it <= max_len - 1
    /\ g_pc = "done" => (g_it = max_len - 1 /\ Len(g_ys) = max_len)
    /\ (g_pc = "loop" /\ g_it < max_len - 1) => ENABLED GreedyStep

C3_Witness ==
    /\ g_pc = "done"
    /\ max_len >= 3
    /\ \E p \in 2 .. (max_len - 1) : g_ys[p] = eos_id /\ g_ys[p + 1] # eos_id

\* C7: every hypothesis of the beam extends its parent; a parent that had not
\* ended is extended with the selected token, and the end marker stands in
\* for the selected token only when the parent had already ended.
C7_ExtendWithSelected ==
    Stepped =>
        \A k \in DOMAIN ys :
            /\ Last(Parent(k)) # end_idx => ys[k] = Append(Parent(k), cols[k])
            /\ ys[k] # Append(Parent(k), cols[k]) =>
                  (Last(Parent(k)) = end_idx /\ ys[k] = Append(Parent(k), end_idx))

\* C8: with beam_size <= vocabulary size the beam starts as the single
\* hypothesis [start_symbol] with score 0; after the step with index s (it =
\* s + 1 steps done) it holds beam_size hypotheses of length s + 2, each its
\* parent plus one token and beginning with start_symbol, and scores[k] is
\* the parent's score plus the log-probability selected for ys[k].
C8_BeamShape ==
    beam_size <= VocabSize =>
        /\ b_pc # "error"
        /\ it = 0 => (ys = <<<<start_symbol>>>> /\ scores = <<0>>)
        /\ Stepped =>
              /\ Len(ys) = beam_size
              /\ Len(scores) = beam_size
              /\ \A k \in 1 .. beam_size :
                    /\ Len(ys[k]) = it + 1
                    /\ ys[k][1] = start_symbol
                    /\ SubSeq(ys[k], 1, it) = Parent(k)
                    /\ scores[k] = scores_prev[rows[k] + 1] + prob[rows[k] + 1][cols[k]]

C8_Witness ==
    /\ it >= 2
    /\ beam_size = 2
    /\ rows[1] = rows[2]
    /\ Last(Parent(1)) # end_idx
    /\ scores[1] > scores[2]

\* C9: an ended hypothesis is frozen: an extension of a parent ending with
\* end_idx ends with end_idx and has the parent's score, and in every
\* hypothesis every generated end_idx is followed only by end_idx.
C9_EndedFrozen ==
    /\ Stepped =>
          \A k \in DOMAIN ys :
              Last(Parent(k)) = end_idx =>
                  (ys[k] = Append(Parent(k), end_idx) /\ scores[k] = scores_prev[rows[k] + 1])
    /\ \A k \in DOMAIN ys :
          \A p \in 2 .. Len(ys[k]) : \A q \in p .. Len(ys[k]) :
              ys[k][p] = end_idx => ys[k][q] = end_idx

C9_Witness ==
    /\ it >= 2
    /\ start_symbol # end_idx
    /\ b_pc = "loop"
    /\ \E k \in DOMAIN ys :
          /\ Last(Parent(k)) = end_idx
          /\ model[end_idx][cols[k]] # 0
          /\ cols[k] # end_idx
          /\ scores[k] < 0

\* C10: at every decode call the batch size of memory and of src_mask is the
\* number of hypotheses in ys: 1 at the first step, beam_size at every later
\* step, whichever parent rows the earlier steps selected.
C10_MemoryBatch ==
    (b_pc = "loop" /\ it < max_len - 1) =>
        /\ memory = Len(ys)
        /\ src_mask = Len(ys)
        /\ it = 0 => memory = 1
        /\ it >= 1 => memory = beam_size

C10_Witness ==
    /\ b_pc = "loop"
    /\ it = 2
    /\ it < max_len - 1
    /\ beam_size = 2
    /\ i # 0

\* the row collate_batch is to emit for ids when it fits: start id, the ids
\* in order, end id, then pad_id up to max_padding
FittingRow(r, ids) ==
    /\ Len(r) = max_padding
    /\ r[1] = 0
    /\ \A p \in 1 .. Len(ids) : r[p + 1] = ids[p]
    /\ r[Len(ids) + 2] = 1
    /\ \A p \in (Len(ids) + 3) .. max_padding : r[p] = pad_id

\* C4: a sequence of n ids with n + 2 <= max_padding gives a row of length
\* max_padding: 0, the n ids in order, 1, then max_padding - n - 2 copies of
\* pad_id; the tensors returned for source and target both have shape
\* (batch size, max_padding).
C4_FittingRows ==
    /\ Len(src_list) = c_k /\ Len(tgt_list) = c_k
    /\ \A k \in 1 .. c_k :
          /\ Len(batch[k][1]) + 2 <= max_padding => FittingRow(src_list[k], batch[k][1])
          /\ Len(batch[k][2]) + 2 <= max_padding => FittingRow(tgt_list[k], batch[k][2])
    /\ c_pc = "done" =>
          /\ src = src_list /\ tgt = tgt_list
          /\ Len(src) = Len(batch) /\ Len(tgt) = Len(batch)
          /\ \A k \in 1 .. Len(batch) :
                Len(src[k]) = max_padding /\ Len(tgt[k]) = max_padding

C4_Witness ==
    /\ c_pc = "done"
    /\ Len(batch) = 2
    /\ max_padding = 5
    /\ Len(batch[1][1]) = 2 /\ Len(batch[1][2]) = 1
    /\ Len(batch[2][1]) = 0 /\ Len(batch[2][2]) = 3
    /\ src[1] = <<0, 3, 4, 1, pad_id>>

\* the k-th pair of the batch has a side that with its brackets is longer
\* than max_padding
Overflows(k) ==
    \/ Len(batch[k][1]) + 2 > max_padding
    \/ Len(batch[k][2]) + 2 > max_padding

\* C5: a pair with a sequence that, bracketed, is longer than max_padding
\* makes collate_batch fail: no row is emitted for it and no tensor returned.
C5_OverflowFails ==
    \A k \in 1 .. Len(batch) :
        Overflows(k) =>
            /\ Len(src_list) < k /\ Len(tgt_list) < k
            /\ c_pc # "done"
            /\ src = <<>> /\ tgt = <<>>

\* C6: attention() with a 2-D mask (N, Lk), for any Lq and Lk, masks the
\* scores of shape (N, Lq, Lk): the score at (n, q, k) is the sentinel
\* exactly when mask[n][k] = 0, for every query position q, and the weights
\* and the output it returns have Lq rows.
C6_Mask2DOverQueries ==
    (a_pc # "call" /\ mask_dim = 2) =>
        /\ a_pc = "done"
        /\ Len(masked_scores) = N
        /\ \A n \in 1 .. N :
              /\ Len(masked_scores[n]) = Lq
              /\ Len(attn_weights[n]) = Lq
              /\ \A q \in 1 .. Lq :
                    /\ Len(masked_scores[n][q]) = Lk
                    /\ \A k \in 1 .. Lk :
                          masked_scores[n][q][k] = Sentinel <=> mask[n][k] = 0
        /\ attn_out = <<N, Lq>>

====
